---- MODULE Spec2Model ----
(***************************************************************************)
(* caldav-web: the local task cache (models.Task rows), the remote CalDAV  *)
(* calendar, and the request handlers of app.py that reconcile the two     *)
(* through CalDAVClient (caldav_client.py).                                *)
(*                                                                         *)
(* One calendar is modelled (every handler filters by calendar_url).  Of   *)
(* the content columns of a task the model keeps `completed` and           *)
(* `parent_uid`; uids are drawn from a counter that stands for uuid4().    *)
(* Time is a logical clock: a request reads datetime.now() once.           *)
(***************************************************************************)
EXTENDS Integers, Sequences, FiniteSets, TLC

VARIABLES
    client,     \* app.py:32-37   TRUE: CalDAVClient was constructed, FALSE: client = None
    calCache,   \* caldav_client.py:70   _calendar_cache holds the calendar
    local,      \* committed rows of table `tasks`: uid -> row
    sess,       \* db.session's view of the rows inside the running request
    remote,     \* the VTODOs of the remote calendar: uid -> record
    nextUid,    \* the next value uuid.uuid4() yields
    now,        \* the last value datetime.now(timezone.utc) returned
    pc,         \* "idle", or "push" while push_pending walks its loop
    queue,      \* push_pending: the unsynced tasks not yet visited, each with the
                \* `updated` the query sorted it by
    attempted,  \* push_pending: the loop iterations done in this request
    resp,       \* the response of the last request
    settled,    \* environment: the remote stays reachable and local edits have stopped
    todos,      \* the VTODOs calendar.todos() answers with when any client may have
                \* written the calendar (the Pull of PullSpec), in the order it lists them
    pulled,     \* what the last sync_tasks_to_db of PullSpec returned, or that it raised
    retry,      \* one call through the wrapper of retry_on_failure (RetrySpec)
    sync_logs,  \* the rows the last push_pending added to table sync_logs
    codec,      \* one VTODO going through the decoder or an encoder (CodecSpec)
    pushes,     \* the push_pending requests of two server threads (OverlapSpec)
    calendars   \* committed rows of table `calendars`: url -> row (CalendarSpec)

vars == <<client, calCache, local, sess, remote, nextUid, now, pc, queue,
          attempted, resp, settled, todos, calendars, pulled, retry, sync_logs, codec, pushes>>

----------------------------------------------------------------------------
\* Bounds of the model

MaxUid == 3
MaxClock == 4

\* None, for parent_uid and last_sync
NoUid == 0
Never == 0

Uids == 1..MaxUid

\* What the network does to the calls of one request:
\*   cal   principal.calendars() answers   (get_calendar_by_url, when not cached)
\*   find  calendar.todo_by_uid() answers  (found or NotFoundError)
\*   op    add_todo / save / delete / todos() completes
NetUp == [cal |-> TRUE, find |-> TRUE, op |-> TRUE]
NetDown == [cal |-> FALSE, find |-> FALSE, op |-> FALSE]
NetOutcomes ==
    { NetUp, NetDown,
      [cal |-> TRUE, find |-> FALSE, op |-> TRUE],
      [cal |-> TRUE, find |-> TRUE, op |-> FALSE] }

----------------------------------------------------------------------------
\* Finite maps

Put(f, k, v) == [x \in DOMAIN f \cup {k} |-> IF x = k THEN v ELSE f[x]]
Drop(f, k) == [x \in DOMAIN f \ {k} |-> f[x]]
Empty == [x \in {} |-> 0]

----------------------------------------------------------------------------
\* models.py: Task

\* Task(...) as the create route builds it; created/updated default to now
NewTask(parent, synced, operation, t) ==
    [ completed |-> FALSE, completed_at |-> Never, parent_uid |-> parent,
      is_synced |-> synced, operation |-> operation,
      sync_attempts |-> 0, updated |-> t, last_sync |-> Never ]

\* @validates('priority') for an integer: ValueError unless 1 <= priority <= 9
validate_priority(priority) == priority \in 1..9

\* A variant of mark_incomplete that keeps the completion time: C40 rests on
\* self.completed_at = None
MarkIncompleteKeepsTime(task, t) == [task EXCEPT !.completed = FALSE, !.updated = t]

mark_completed(task, t) ==
    [task EXCEPT !.completed = TRUE, !.completed_at = t, !.updated = t]

mark_incomplete(task, t) ==
    [task EXCEPT !.completed = FALSE, !.completed_at = Never, !.updated = t]

mark_for_sync(task, operation, t) ==
    [task EXCEPT !.is_synced = FALSE, !.operation = operation,
                 !.sync_attempts = 0, !.updated = t]

\* A variant of mark_synced that leaves the pending operation in place: C36 rests on
\* mark_synced clearing it
MarkSyncedKeepsOperation(task, t) ==
    [task EXCEPT !.is_synced = TRUE, !.last_sync = t, !.sync_attempts = 0, !.updated = t]

\* `updated` has onupdate=now: the UPDATE that stores last_sync also bumps it
mark_synced(task, t) ==
    [task EXCEPT !.is_synced = TRUE, !.operation = "none",
                 !.last_sync = t, !.sync_attempts = 0, !.updated = t]

\* The flush of db.session.delete() on the rows `deleted`: the backref `subtasks` has
\* no delete cascade, so the unit of work sets parent_uid of their subtasks to NULL,
\* an UPDATE that also sets `updated` (onupdate)
Flush(rows, deleted, t) ==
    [u \in DOMAIN rows \ deleted |->
        IF rows[u].parent_uid \in deleted
        THEN [rows[u] EXCEPT !.parent_uid = NoUid, !.updated = t]
        ELSE rows[u]]

\* Whether a commit wrote the instant t into some row
Stamped(rows, t) == \E u \in DOMAIN rows : rows[u].updated = t \/ rows[u].last_sync = t

----------------------------------------------------------------------------
\* caldav_client.py: CalDAVClient

\* get_calendar_by_url: the cached calendar, or one network round trip
get_calendar_by_url(n) == calCache \/ n.cal

\* _find_task_by_uid / get_task_by_uid: None on NotFoundError and on any other error
find_task_by_uid(uid, n) == n.find /\ uid \in DOMAIN remote

\* has_cycle(start_uid, current_uid, visited) of _validate_task_hierarchy
RECURSIVE has_cycle(_, _, _, _)
has_cycle(task_map, start_uid, current_uid, visited) ==
    IF current_uid = NoUid THEN FALSE
    ELSE IF current_uid = start_uid THEN TRUE
    ELSE IF current_uid \in visited THEN FALSE
    ELSE IF current_uid \notin DOMAIN task_map THEN FALSE
    ELSE has_cycle(task_map, start_uid, task_map[current_uid].parent_uid,
                   visited \cup {current_uid})

\* A variant of the walk that never records the uids it passes: C34 rests on
\* visited.add(current_uid)
RECURSIVE WalkForgetsVisited(_, _, _, _, _)
WalkForgetsVisited(task_map, start_uid, current_uid, visited, depth) ==
    IF current_uid = NoUid THEN [stop |-> "null", path |-> <<>>]
    ELSE IF current_uid = start_uid THEN [stop |-> "start", path |-> <<>>]
    ELSE IF current_uid \in visited THEN [stop |-> "visited", path |-> <<>>]
    ELSE IF current_uid \notin DOMAIN task_map
         THEN [stop |-> "outside", path |-> <<current_uid>>]
    ELSE IF depth = 0 THEN [stop |-> "running", path |-> <<current_uid>>]
    ELSE LET rest == WalkForgetsVisited(task_map, start_uid,
                                        task_map[current_uid].parent_uid, visited, depth - 1)
         IN [stop |-> rest.stop, path |-> <<current_uid>> \o rest.path]

\* The calls of one has_cycle walk: the uids it adds to visited, in order, and the
\* test that ended it.  `depth` is the number of further calls followed; a walk that
\* is still going when it is used up is reported as "running".
RECURSIVE cycle_walk(_, _, _, _, _)
cycle_walk(task_map, start_uid, current_uid, visited, depth) ==
    IF current_uid = NoUid THEN [stop |-> "null", path |-> <<>>]
    ELSE IF current_uid = start_uid THEN [stop |-> "start", path |-> <<>>]
    ELSE IF current_uid \in visited THEN [stop |-> "visited", path |-> <<>>]
    ELSE IF current_uid \notin DOMAIN task_map
         THEN [stop |-> "outside", path |-> <<current_uid>>]
    ELSE IF depth = 0 THEN [stop |-> "running", path |-> <<current_uid>>]
    ELSE LET rest == cycle_walk(task_map, start_uid, task_map[current_uid].parent_uid,
                                visited \cup {current_uid}, depth - 1)
         IN [stop |-> rest.stop, path |-> <<current_uid>> \o rest.path]

\* The walks of the second pass, one for every task with a parent, each on the map
\* as the repairs before it left it
RECURSIVE CycleWalks(_, _)
CycleWalks(task_map, order) ==
    IF order = <<>> THEN <<>>
    ELSE LET uid == Head(order)
             parent_uid == task_map[uid].parent_uid
             walk == cycle_walk(task_map, uid, parent_uid, {},
                                Cardinality(DOMAIN task_map) + 1)
             fixed == IF parent_uid # NoUid /\ walk.stop = "start"
                      THEN [task_map EXCEPT ![uid].parent_uid = NoUid]
                      ELSE task_map
         IN (IF parent_uid # NoUid THEN <<[start |-> uid, walk |-> walk]>> ELSE <<>>)
            \o CycleWalks(fixed, Tail(order))

\* A variant of the first pass that repairs nothing: C15 and C16 rest on the pass
OrphanPassSkipped(task_map) == task_map

\* first pass: references to parents that are not in the batch
OrphanPass(task_map) ==
    [u \in DOMAIN task_map |->
        IF task_map[u].parent_uid # NoUid /\ task_map[u].parent_uid \notin DOMAIN task_map
        THEN [task_map[u] EXCEPT !.parent_uid = NoUid]
        ELSE task_map[u]]

\* A variant of the second pass that starts each walk at the task itself, not at its
\* parent: C17 rests on has_cycle(uid, parent_uid, set())
RECURSIVE CyclePassFromSelf(_, _)
CyclePassFromSelf(task_map, order) ==
    IF order = <<>> THEN task_map
    ELSE LET uid == Head(order)
             parent_uid == task_map[uid].parent_uid
             fixed == IF parent_uid # NoUid /\ has_cycle(task_map, uid, uid, {})
                      THEN [task_map EXCEPT ![uid].parent_uid = NoUid]
                      ELSE task_map
         IN CyclePassFromSelf(fixed, Tail(order))

\* A variant of the second pass whose walks all see the map as it came in, so that
\* no walk sees the repair of another: C39 rests on the pass repairing in place
CyclePassOnSnapshot(task_map, order) ==
    [u \in DOMAIN task_map |->
        IF /\ task_map[u].parent_uid # NoUid
           /\ has_cycle(task_map, u, task_map[u].parent_uid, {})
        THEN [task_map[u] EXCEPT !.parent_uid = NoUid]
        ELSE task_map[u]]

\* second pass, over the batch in its order, each repair seen by the next walk
RECURSIVE CyclePass(_, _)
CyclePass(task_map, order) ==
    IF order = <<>> THEN task_map
    ELSE LET uid == Head(order)
             parent_uid == task_map[uid].parent_uid
             fixed == IF parent_uid # NoUid /\ has_cycle(task_map, uid, parent_uid, {})
                      THEN [task_map EXCEPT ![uid].parent_uid = NoUid]
                      ELSE task_map
         IN CyclePass(fixed, Tail(order))

\* A variant of the validation without the second pass: C16 rests on the cycle pass
ValidateOrphansOnly(task_map, order) == OrphanPass(task_map)

validate_task_hierarchy(task_map, order) == CyclePass(OrphanPass(task_map), order)

\* CalDAVClient.create_task: the uid is generated by the client, the parent is kept
\* only when it is found on the remote; any failure raises CalDAVError
CalDAV_create_task(uid, parent, n) ==
    IF get_calendar_by_url(n) /\ n.op
    THEN [ raised |-> FALSE,
           remote |-> Put(remote, uid,
                          [ completed |-> FALSE, completed_at |-> Never,
                            parent_uid |-> IF parent # NoUid /\ find_task_by_uid(parent, n)
                                           THEN parent ELSE NoUid ]) ]
    ELSE [ raised |-> TRUE, remote |-> remote ]

\* CalDAVClient.update_task(todo, ...) at time t: todo = None raises (todo.data);
\* completed is always passed, COMPLETED is written with it and removed without;
\* related-to is rewritten only when parent_uid is not None
CalDAV_update_task(todo, uid, task, n, t) ==
    IF todo /\ n.op
    THEN [ raised |-> FALSE,
           remote |-> [remote EXCEPT
                         ![uid] = [ completed |-> task.completed,
                                    completed_at |-> IF task.completed THEN t ELSE Never,
                                    parent_uid |-> IF task.parent_uid # NoUid
                                                   THEN task.parent_uid
                                                   ELSE remote[uid].parent_uid ]] ]
    ELSE [ raised |-> TRUE, remote |-> remote ]

\* CalDAVClient.delete_task: True when the task was found and deleted, False when
\* _find_task_by_uid returned None
CalDAV_delete_task(uid, n) ==
    IF ~get_calendar_by_url(n) THEN [ raised |-> TRUE, result |-> FALSE, remote |-> remote ]
    ELSE IF ~find_task_by_uid(uid, n) THEN [ raised |-> FALSE, result |-> FALSE, remote |-> remote ]
    ELSE IF ~n.op THEN [ raised |-> TRUE, result |-> FALSE, remote |-> remote ]
    ELSE [ raised |-> FALSE, result |-> TRUE, remote |-> Drop(remote, uid) ]

\* No Pull has returned yet
NoPull == [status |-> "none"]

\* No call is running through the retry wrapper
NoCall == [pc |-> "none"]

\* No VTODO is in the decoder or an encoder
NoCodec == [pc |-> "none"]

\* No request thread is in push_pending
NoPushes == <<>>

----------------------------------------------------------------------------
Init ==
    /\ client \in BOOLEAN
    /\ calCache = FALSE
    /\ local = Empty
    /\ sess = Empty
    /\ remote = Empty
    /\ nextUid = 1
    /\ now = 0
    /\ pc = "idle"
    /\ queue = <<>>
    /\ attempted = <<>>
    /\ resp = [route |-> "none", code |-> 0]
    /\ settled = FALSE
    /\ todos = <<>> /\ calendars = Empty
    /\ pulled = NoPull
    /\ retry = NoCall
    /\ sync_logs = <<>>
    /\ codec = NoCodec
    /\ pushes = NoPushes

----------------------------------------------------------------------------
\* app.py: the routes.  A request runs alone (pc = "idle"); client = None turns
\* every remote call off.

Respond(route, code) == resp' = [route |-> route, code |-> code]

\* The priorities POST /tasks lets through (0..9, lines 273-280): 0, and one that
\* the Task model accepts as well
CreatePriorities == {0, 5}

\* POST /tasks.  The parent must be a local row (404 otherwise).  With a client the
\* task is first created remotely and takes the uid the client generated; when the
\* remote create fails, or without a client, the row is queued as unsynced/create.
\* The row is built after the remote call, and Task(...) validates the priority.
create_task(parent, priority, n) ==
    /\ pc = "idle"
    /\ nextUid <= MaxUid /\ now < MaxClock
    /\ parent = NoUid \/ parent \in DOMAIN local
    /\ LET r == CalDAV_create_task(nextUid, parent, n)
           ok == client /\ ~r.raised
       IN /\ remote' = (IF client THEN r.remote ELSE remote)
          /\ IF validate_priority(priority)
             THEN /\ local' = Put(local, nextUid,
                                  NewTask(parent, ok, IF ok THEN "none" ELSE "create", now + 1))
                  /\ nextUid' = nextUid + 1
                  /\ now' = now + 1
                  /\ Respond("create", 201)
             ELSE \* Task(...) raises ValueError after the remote call: rollback, 500
                  /\ local' = local
                  /\ nextUid' = (IF ok THEN nextUid + 1 ELSE nextUid)
                  /\ now' = now
                  /\ Respond("create", 500)
    /\ sess' = local'
    /\ calCache' = (calCache \/ (client /\ n.cal))
    /\ UNCHANGED <<sync_logs, codec, pushes, todos, calendars, pulled, retry, client, pc, queue, attempted, settled>>

\* The row of PATCH /tasks/<uid> after the field updates (lines 373-424)
PatchedTask(task, completed, parent, t) ==
    LET c == IF completed = task.completed THEN task
             ELSE IF completed THEN mark_completed(task, t) ELSE mark_incomplete(task, t)
    IN [c EXCEPT !.parent_uid = parent]

\* The sync state PATCH leaves (lines 446-468): CalDAVClient.update_task has no
\* return statement, so `result` is None whether or not the remote update worked
PatchSyncState(task, r, t) == mark_for_sync(task, "update", t)

\* PATCH /tasks/<uid> with at least one changed field
update_task(uid, completed, parent, n) ==
    /\ pc = "idle"
    /\ now < MaxClock
    /\ uid \in DOMAIN local
    /\ <<completed, parent>> # <<local[uid].completed, local[uid].parent_uid>>
    /\ parent = local[uid].parent_uid \/ parent = NoUid \/ parent \in DOMAIN local
    /\ LET t == now + 1
           task == PatchedTask(local[uid], completed, parent, t)
       IN IF client /\ ~get_calendar_by_url(n)
          THEN \* get_task_by_uid raises outside handle_caldav_error: rollback, 500
               /\ Respond("patch", 500)
               /\ UNCHANGED <<local, remote, now, calCache>>
          ELSE LET r == CalDAV_update_task(find_task_by_uid(uid, n), uid, task, n, t)
               IN /\ remote' = (IF client THEN r.remote ELSE remote)
                  /\ local' = [local EXCEPT ![uid] = PatchSyncState(task, r, t)]
                  /\ calCache' = (calCache \/ client)
                  /\ now' = t
                  /\ Respond("patch", 200)
    /\ sess' = local'
    /\ UNCHANGED <<sync_logs, codec, pushes, todos, calendars, pulled, retry, client, nextUid, pc, queue, attempted, settled>>

\* What the DELETE route and the bulk delete do with one row, given the outcome r of
\* CalDAVClient.delete_task under handle_caldav_error: `result is not None` deletes
\* the row, an exception queues it as unsynced/delete
DeleteLocal(rows, uid, r, t) ==
    IF client /\ ~r.raised THEN Flush(rows, {uid}, t)
    ELSE [rows EXCEPT ![uid] = mark_for_sync(rows[uid], "delete", t)]

\* DELETE /tasks/<uid>
delete_task(uid, n) ==
    /\ pc = "idle"
    /\ now < MaxClock
    /\ uid \in DOMAIN local
    /\ LET r == CalDAV_delete_task(uid, n)
       IN /\ remote' = (IF client THEN r.remote ELSE remote)
          /\ local' = DeleteLocal(local, uid, r, now + 1)
    /\ sess' = local'
    /\ calCache' = (calCache \/ (client /\ n.cal))
    /\ now' = (IF Stamped(local', now + 1) THEN now + 1 ELSE now)
    /\ Respond("delete", 200)
    /\ UNCHANGED <<sync_logs, codec, pushes, todos, calendars, pulled, retry, client, nextUid, pc, queue, attempted, settled>>

\* One row of POST /tasks/bulk (lines 647-690).  The update call of complete and
\* incomplete passes summary twice (task.uid, calendar_url, ..., summary=...), a
\* TypeError that handle_caldav_error turns into result None: with a client the row
\* is always queued as unsynced/update, without one its sync state is left alone.
\* set_priority writes the priority column (not part of this model) and queues.
BulkRow(task, operation, t) ==
    CASE operation = "complete" ->
            LET c == IF ~task.completed THEN mark_completed(task, t) ELSE task
            IN IF client THEN mark_for_sync(c, "update", t) ELSE c
      [] operation = "incomplete" ->
            LET c == IF task.completed THEN mark_incomplete(task, t) ELSE task
            IN IF client THEN mark_for_sync(c, "update", t) ELSE c
      [] operation = "set_priority" -> mark_for_sync(task, "update", t)
      [] operation = "delete" -> mark_for_sync(task, "delete", t)

BulkOperations == {"complete", "incomplete", "set_priority", "delete"}

\* POST /tasks/bulk: the rows of task_uids, each handled on its own
bulk_task_operations(operation, task_uids, n) ==
    /\ pc = "idle"
    /\ now < MaxClock
    /\ task_uids # {} /\ task_uids \subseteq DOMAIN local
    /\ LET t == now + 1
           gone == IF operation = "delete" /\ client
                   THEN {u \in task_uids : ~CalDAV_delete_task(u, n).raised}
                   ELSE {}
       IN /\ local' = Flush([u \in DOMAIN local |->
                                   IF u \in task_uids \ gone
                                   THEN BulkRow(local[u], operation, t)
                                   ELSE local[u]],
                                gone, t)
          /\ remote' = (IF operation = "delete" /\ client
                        THEN [u \in {v \in DOMAIN remote :
                                        v \in task_uids => CalDAV_delete_task(v, n).raised
                                                           \/ ~CalDAV_delete_task(v, n).result}
                                 |-> remote[u]]
                        ELSE remote)
          /\ now' = (IF Stamped(local', t) THEN t ELSE now)
    /\ sess' = local'
    /\ calCache' = (calCache \/ (operation = "delete" /\ client /\ n.cal))
    /\ Respond("bulk", 200)
    /\ UNCHANGED <<sync_logs, codec, pushes, todos, calendars, pulled, retry, client, nextUid, pc, queue, attempted, settled>>

----------------------------------------------------------------------------
\* Pull: POST /sync -> CalDAVClient.sync_tasks_to_db

Perms(S) ==
    {q \in [1..Cardinality(S) -> S] : \A i, j \in 1..Cardinality(S) : i # j => q[i] # q[j]}

\* lines 365-369: the completion time is taken from a completed task that has one,
\* cleared for a task that is not completed, and otherwise left as it was
PullCompletedAt(db_task, task_data) ==
    IF task_data.completed /\ task_data.completed_at # Never THEN task_data.completed_at
    ELSE IF ~task_data.completed THEN Never
    ELSE db_task.completed_at

\* A variant of PullRow that marks only the rows it inserts: C10 rests on
\* mark_synced() being called for the existing rows as well
PullRowInsertOnly(rows, uid, task_data, t) ==
    IF uid \in DOMAIN rows
    THEN [rows[uid] EXCEPT !.completed = task_data.completed,
                           !.completed_at = PullCompletedAt(rows[uid], task_data),
                           !.parent_uid = task_data.parent_uid, !.updated = t]
    ELSE mark_synced([NewTask(NoUid, TRUE, "none", t)
                         EXCEPT !.completed = task_data.completed,
                                !.completed_at = PullCompletedAt(NewTask(NoUid, TRUE, "none", t), task_data),
                                !.parent_uid = task_data.parent_uid], t)

\* One task of the validated batch written to its row (lines 339-372)
PullRow(rows, uid, task_data, t) ==
    LET db_task == IF uid \in DOMAIN rows THEN rows[uid]
                   ELSE NewTask(NoUid, TRUE, "none", t)
    IN mark_synced([db_task EXCEPT !.completed = task_data.completed,
                                   !.completed_at = PullCompletedAt(db_task, task_data),
                                   !.parent_uid = task_data.parent_uid], t)

\* sync_tasks_to_db: the rows after the commit, the batch listed in `order`
sync_tasks_to_db(rows, order, t) ==
    LET task_map == validate_task_hierarchy(remote, order)
    IN [u \in DOMAIN rows \cup DOMAIN task_map |->
           IF u \in DOMAIN task_map THEN PullRow(rows, u, task_map[u], t) ELSE rows[u]]

sync_tasks(n) ==
    /\ pc = "idle"
    /\ IF ~client
       THEN /\ Respond("sync", 503)
            /\ UNCHANGED <<local, now, calCache>>
       ELSE IF ~(get_calendar_by_url(n) /\ n.op)
       THEN \* get_all_tasks raises CalDAVError
            /\ Respond("sync", 500)
            /\ calCache' = (calCache \/ n.cal)
            /\ UNCHANGED <<local, now>>
       ELSE IF remote = Empty
       THEN /\ Respond("sync", 200)
            /\ calCache' = TRUE
            /\ UNCHANGED <<local, now>>
       ELSE /\ now < MaxClock
            /\ \E order \in Perms(DOMAIN remote) :
                  local' = sync_tasks_to_db(local, order, now + 1)
            /\ now' = now + 1
            /\ calCache' = TRUE
            /\ Respond("sync", 200)
    /\ sess' = local'
    /\ UNCHANGED <<sync_logs, codec, pushes, todos, calendars, pulled, retry, client, remote, nextUid, pc, queue, attempted, settled>>

----------------------------------------------------------------------------
\* Push: POST /push_pending

Unsynced(rows) == {u \in DOMAIN rows : ~rows[u].is_synced}

\* A variant of the query without order_by: the rows come in primary-key order.
\* C4 rests on the order_by
OrderByUid(rows) ==
    {q \in Perms(Unsynced(rows)) : \A i, j \in 1..Len(q) : i < j => q[i] < q[j]}

\* Task.query.filter_by(is_synced=False).order_by(Task.updated.asc()).all(): every
\* order the database may return, rows with equal `updated` in either order
OrderByUpdatedAsc(rows) ==
    {q \in Perms(Unsynced(rows)) :
        \A i, j \in 1..Len(q) : i < j => rows[q[i]].updated <= rows[q[j]].updated}

\* The instant this request stamps: the clock advances with its first commit
PushTime ==
    IF \E i \in 1..Len(attempted) : attempted[i].operation # "delete"
    THEN now ELSE now + 1

\* The rows given to db.session.delete() by this request and not flushed yet
PendingDeletes ==
    {u \in DOMAIN sess :
        \E i \in 1..Len(attempted) :
            attempted[i].uid = u /\ attempted[i].operation = "delete"}

\* The uids the pending creates will draw from the bounded uids
CreatesPending(rows) == Cardinality({u \in Unsynced(rows) : rows[u].operation = "create"})

push_pending_begin ==
    /\ pc = "idle"
    /\ IF ~client
       THEN /\ Respond("push", 503)
            /\ UNCHANGED <<pc, queue>>
       ELSE IF Unsynced(local) = {}
       THEN /\ Respond("push", 200)
            /\ UNCHANGED <<pc, queue>>
       ELSE /\ now < MaxClock
            /\ nextUid + CreatesPending(local) <= MaxUid + 1
            /\ \E q \in OrderByUpdatedAsc(local) :
                  queue' = [i \in 1..Len(q) |-> [uid |-> q[i], updated |-> local[q[i]].updated]]
            /\ pc' = "push"
            /\ UNCHANGED resp
    /\ attempted' = <<>>
    /\ sync_logs' = <<>>
    /\ UNCHANGED <<codec, pushes, todos, calendars, pulled, retry, client, calCache, local, sess, remote,
                   nextUid, now, settled>>

\* A variant of PushCreateRows without `task.uid = result`: C8 rests on that line
PushCreateKeepsUid(rows, uid, result, t) ==
    [rows EXCEPT ![uid] = mark_synced(rows[uid], t)]

\* The row of a pushed create: it takes the uid the remote create returned
PushCreateRows(rows, uid, result, t) ==
    Put(Drop(rows, uid), result, mark_synced(rows[uid], t))

\* log_sync_operation(calendar_url, operation=task.operation or 'unknown',
\* task_uid=task.uid, status='success') on the task as mark_synced() left it
PushLogRow(task_uid, task) ==
    [ task_uid |-> task_uid,
      operation |-> IF task.operation = "none" THEN "unknown" ELSE task.operation,
      status |-> "success" ]

\* One iteration of the loop (lines 564-599) on task `uid`:
\*   raised  an exception leaves the loop (the try/except around the body is
\*           commented out), rows and remote are then not used
\*   commit  log_sync_operation ran, and its db.session.commit() with it
\*   delete  the row was given to db.session.delete()
\*   logged  the rows log_sync_operation added (line 599, after mark_synced())
PushItem(uid, n, t) ==
    LET task == sess[uid] IN
    CASE task.operation = "create" ->
            LET r == CalDAV_create_task(nextUid, task.parent_uid, n)
            IN [ raised |-> r.raised, commit |-> TRUE, remote |-> r.remote,
                 delete |-> FALSE, rows |-> PushCreateRows(sess, uid, nextUid, t),
                 logged |-> <<PushLogRow(nextUid, mark_synced(task, t))>> ]
      [] task.operation = "update" ->
            LET todo == get_calendar_by_url(n) /\ find_task_by_uid(uid, n)
                r == CalDAV_update_task(todo, uid, task, n, t)
            IN [ raised |-> r.raised, commit |-> TRUE, remote |-> r.remote,
                 delete |-> FALSE, rows |-> [sess EXCEPT ![uid] = mark_synced(task, t)],
                 logged |-> <<PushLogRow(uid, mark_synced(task, t))>> ]
      [] task.operation = "delete" ->
            LET r == CalDAV_delete_task(uid, n)
            IN [ raised |-> r.raised, commit |-> FALSE, remote |-> r.remote,
                 delete |-> TRUE, rows |-> sess, logged |-> <<>> ]
      [] OTHER ->
            [ raised |-> FALSE, commit |-> TRUE, remote |-> remote,
              delete |-> FALSE, rows |-> [sess EXCEPT ![uid] = mark_synced(task, t)],
              logged |-> <<PushLogRow(uid, mark_synced(task, t))>> ]

\* The rows after an exception left the loop: nothing catches it, the request ends
\* with a 500 and the session is discarded with whatever it had not committed
PushFailure(committed, session, uid) == committed

push_pending_item(n) ==
    /\ pc = "push" /\ queue # <<>>
    /\ \E uid \in {Head(queue).uid} : \E r \in {PushItem(uid, n, PushTime)} :
          IF r.raised
          THEN
               /\ local' = PushFailure(local, sess, uid)
               /\ sess' = local'
               /\ pc' = "idle"
               /\ queue' = <<>>
               /\ attempted' = <<>>
               /\ Respond("push", 500)
               /\ UNCHANGED <<remote, nextUid, now, sync_logs>>
          ELSE /\ sess' = (IF r.commit THEN Flush(r.rows, PendingDeletes, PushTime)
                             ELSE r.rows)
               /\ local' = (IF r.commit THEN sess' ELSE local)
               /\ remote' = r.remote
               /\ nextUid' = (IF sess[uid].operation = "create" THEN nextUid + 1 ELSE nextUid)
               /\ now' = (IF r.commit THEN PushTime ELSE now)
               /\ queue' = Tail(queue)
               /\ attempted' = Append(attempted,
                                      [ uid |-> uid, operation |-> sess[uid].operation,
                                        updated |-> Head(queue).updated ])
               /\ sync_logs' = sync_logs \o r.logged
               /\ UNCHANGED <<pc, resp>>
    /\ calCache' = (calCache \/ n.cal)
    /\ UNCHANGED <<codec, pushes, todos, calendars, pulled, retry, client, settled>>

\* after the loop: db.session.commit() and the 200 response
push_pending_end ==
    /\ pc = "push" /\ queue = <<>>
    /\ local' = Flush(sess, PendingDeletes, PushTime)
    /\ sess' = local'
    /\ now' = (IF Stamped(local', PushTime) THEN PushTime ELSE now)
    /\ pc' = "idle"
    /\ attempted' = <<>>
    /\ Respond("push", 200)
    /\ UNCHANGED <<sync_logs, codec, pushes, todos, calendars, pulled, retry, client, calCache, remote,
                   nextUid, queue, settled>>

----------------------------------------------------------------------------
\* The requests a client of the API can make, under any behaviour of the network
\* (of the bulk operations only delete reaches the network)

Next ==
    \/ \E n \in NetOutcomes, parent \in {NoUid} \cup Uids :
          \E priority \in {p \in CreatePriorities : validate_priority(p)} :
              create_task(parent, priority, n)
    \/ \E n \in NetOutcomes, uid \in Uids, completed \in BOOLEAN,
          parent \in {NoUid} \cup Uids : update_task(uid, completed, parent, n)
    \/ \E n \in NetOutcomes, uid \in Uids : delete_task(uid, n)
    \/ \E operation \in BulkOperations, task_uids \in SUBSET Uids :
          \E n \in (IF operation = "delete" THEN NetOutcomes ELSE {NetUp}) :
              bulk_task_operations(operation, task_uids, n)
    \/ \E n \in NetOutcomes : sync_tasks(n)
    \/ push_pending_begin
    \/ \E n \in NetOutcomes : push_pending_item(n)
    \/ push_pending_end

Spec == Init /\ [][Next]_vars

\* POST /tasks with every priority the route lets through, next to DELETE and Pull
\* (CreateSpec); Spec follows the requests whose priority the Task model accepts
CreateNext ==
    \/ \E n \in NetOutcomes, parent \in {NoUid} \cup Uids, priority \in CreatePriorities :
          create_task(parent, priority, n)
    \/ \E n \in NetOutcomes, uid \in Uids : delete_task(uid, n)
    \/ \E n \in NetOutcomes : sync_tasks(n)

CreateSpec == Init /\ [][CreateNext]_vars

----------------------------------------------------------------------------
\* The setting of eventual reconciliation: from some point on (settled) the remote
\* answers every call, nobody edits, and /push_pending is called again and again.
\* Settle leaves the pending pushes the clock ticks and the uids they need.

Settle ==
    /\ ~settled /\ pc = "idle" /\ client
    /\ now + Cardinality(Unsynced(local)) <= MaxClock
    /\ nextUid + CreatesPending(local) <= MaxUid + 1
    /\ settled' = TRUE
    /\ UNCHANGED <<sync_logs, codec, pushes, todos, calendars, pulled, retry, client, calCache, local, sess,
                   remote, nextUid, now, pc, queue,
                   attempted, resp>>

PushSettled ==
    /\ settled
    /\ \/ push_pending_begin
       \/ push_pending_item(NetUp)
       \/ push_pending_end

NextLive ==
    \/ ~settled /\ Next
    \/ Settle
    \/ PushSettled

LiveSpec == Init /\ [][NextLive]_vars /\ WF_vars(PushSettled)

----------------------------------------------------------------------------
\* Pull of a calendar that any client may have written: sync_tasks_to_db on the
\* VTODOs `todos` (PullSpec)

MaxBatch == 2

\* A resource _parse_vtodo_safely cannot read (vobject raises, or no VTODO in it)
Garbage ==
    [ decodable |-> FALSE, uid |-> NoUid, parent_uid |-> NoUid, blank |-> FALSE,
      completed |-> FALSE, completed_at |-> Never ]

\* The VTODOs that decode: UID, RELATED-TO, whether SUMMARY is blank (validate_summary
\* of models.Task refuses it), STATUS COMPLETED with its COMPLETED time
VTodos ==
    [ decodable : {TRUE}, uid : Uids, parent_uid : {NoUid} \cup Uids, blank : BOOLEAN,
      completed : {TRUE}, completed_at : {1} ]

SeqsUpTo(S, k) == UNION {[1..m -> S] : m \in 0..k}

\* Any short listing (unreadable resources, blank summaries, repeated uids, parents
\* inside and outside the listing), and any listing of well-formed VTODOs with
\* distinct uids
Batches ==
    SeqsUpTo({Garbage} \cup {v \in VTodos : /\ v.uid <= MaxBatch
                                            /\ v.blank => v.parent_uid = NoUid},
             MaxBatch)
HierarchyBatches ==
    {q \in SeqsUpTo({v \in VTodos : ~v.blank}, MaxUid) :
        \A i, j \in 1..Len(q) : i # j => q[i].uid # q[j].uid}

\* _parse_vtodo_safely: a task dict, or None
parse_vtodo_safely(todo) == todo.decodable

\* A variant of get_all_tasks that gives up at the first todo it cannot parse: C12
\* rests on the loop going on to the next todo
GetTasksUntilError(tds) ==
    IF \E i \in 1..Len(tds) : ~parse_vtodo_safely(tds[i])
    THEN SubSeq(tds, 1, (CHOOSE i \in 1..Len(tds) :
                            /\ ~parse_vtodo_safely(tds[i])
                            /\ \A j \in 1..(i - 1) : parse_vtodo_safely(tds[j])) - 1)
    ELSE tds

\* get_all_tasks: the task dicts of the todos that parse; the others are counted in
\* the local parse_errors, which is logged
get_all_tasks(tds) == SelectSeq(tds, parse_vtodo_safely)

\* parse_errors of get_all_tasks
parse_errors(tds) == Len(tds) - Len(get_all_tasks(tds))

\* {task['uid']: task for task in tasks_from_caldav}: the keys in the order of their
\* first occurrence, each with the last task of that uid
RECURSIVE BatchOrder(_)
BatchOrder(tasks) ==
    IF tasks = <<>> THEN <<>>
    ELSE LET rest == BatchOrder(SubSeq(tasks, 1, Len(tasks) - 1))
             uid == tasks[Len(tasks)].uid
         IN IF \E i \in 1..Len(rest) : rest[i] = uid THEN rest ELSE Append(rest, uid)

TaskMap(tasks) ==
    [u \in {tasks[i].uid : i \in 1..Len(tasks)} |->
        tasks[CHOOSE i \in 1..Len(tasks) :
                 /\ tasks[i].uid = u
                 /\ \A j \in 1..Len(tasks) : tasks[j].uid = u => j <= i]]

\* fixed_count of _validate_task_hierarchy: one for every parent_uid set to None
RECURSIVE CycleFixes(_, _)
CycleFixes(task_map, order) ==
    IF order = <<>> THEN 0
    ELSE LET uid == Head(order)
             parent_uid == task_map[uid].parent_uid
             cut == parent_uid # NoUid /\ has_cycle(task_map, uid, parent_uid, {})
             fixed == IF cut THEN [task_map EXCEPT ![uid].parent_uid = NoUid] ELSE task_map
         IN (IF cut THEN 1 ELSE 0) + CycleFixes(fixed, Tail(order))

fixed_count(task_map, order) ==
    Cardinality({u \in DOMAIN task_map :
                    /\ task_map[u].parent_uid # NoUid
                    /\ task_map[u].parent_uid \notin DOMAIN task_map})
    + CycleFixes(OrphanPass(task_map), order)

\* sync_stats as sync_tasks_to_db initialises it (lines 315-321)
NoStats == [total_fetched |-> 0, created |-> 0, updated |-> 0, errors |-> 0,
            hierarchy_fixes |-> 0]

\* The loop over task_map.values() (lines 337-376).  `created` or `updated` is counted
\* when the row is looked up, before its fields are assigned.  A blank summary makes
\* the first assignment raise ValueError: the inner except counts it in `errors` and
\* the row keeps what it had; a row that was just added stays in the session without
\* a summary, the next flush fails on NOT NULL (failed) and every later lookup
\* raises into the inner except as well.
RECURSIVE UpsertLoop(_, _, _, _)
UpsertLoop(acc, task_map, order, t) ==
    IF order = <<>> THEN acc
    ELSE LET uid == Head(order)
             task_data == task_map[uid]
             db_task == uid \in DOMAIN acc.rows
             counted == [acc EXCEPT !.stats.created = @ + (IF db_task THEN 0 ELSE 1),
                                    !.stats.updated = @ + (IF db_task THEN 1 ELSE 0)]
             next ==
                IF acc.failed
                THEN [acc EXCEPT !.stats.errors = @ + 1]
                ELSE IF task_data.blank
                THEN [counted EXCEPT !.stats.errors = @ + 1, !.failed = ~db_task]
                ELSE [counted EXCEPT
                        !.rows = Put(acc.rows, uid, PullRow(acc.rows, uid, task_data, t))]
         IN UpsertLoop(next, task_map, Tail(order), t)

\* A variant of PullRollback that keeps what the session held: C14 rests on the
\* rollback of the outer except
PullKeepsSession(committed, session) == session

\* The outer except of sync_tasks_to_db (lines 390-393): db.session.rollback()
PullRollback(committed, session) == committed

\* sync_tasks_to_db(calendar_url) under the network outcome n with the clock at t:
\* raised (CalDAVError, caused by the fetch or by the commit) or returned, the rows of
\* the table afterwards, and on return the statistics with the validated batch and
\* the fixed_count its validation logged
PullTodos(rows, tds, n, t) ==
    IF ~(get_calendar_by_url(n) /\ n.op)
    THEN [ status |-> "raised", cause |-> "fetch", rows |-> rows ]
    ELSE LET tasks == get_all_tasks(tds)
             order == BatchOrder(tasks)
             task_map == validate_task_hierarchy(TaskMap(tasks), order)
             start == [ rows |-> rows, failed |-> FALSE,
                        stats |-> [NoStats EXCEPT !.total_fetched = Len(tasks)] ]
             end == UpsertLoop(start, task_map, order, t)
         IN IF tasks = <<>>
            THEN [ status |-> "returned", rows |-> rows, stats |-> NoStats,
                   count |-> 0, task_map |-> Empty, order |-> <<>>, fixed_count |-> 0 ]
            ELSE IF end.failed
            THEN [ status |-> "raised", cause |-> "commit",
                   rows |-> PullRollback(rows, end.rows) ]
            ELSE [ status |-> "returned", rows |-> end.rows, stats |-> end.stats,
                   count |-> end.stats.created + end.stats.updated,
                   task_map |-> task_map, order |-> order,
                   fixed_count |-> fixed_count(TaskMap(tasks), order) ]

\* POST /sync on the calendar `todos`
pull_todos(n) ==
    /\ pc = "idle" /\ client
    /\ now < MaxClock
    /\ \E r \in {PullTodos(local, todos, n, now + 1)} :
          /\ local' = r.rows
          /\ pulled' = (IF r.status = "raised"
                        THEN [status |-> "raised", cause |-> r.cause]
                        ELSE [ status |-> "returned", stats |-> r.stats, count |-> r.count,
                               task_map |-> r.task_map, order |-> r.order,
                               fixed_count |-> r.fixed_count ])
          /\ Respond("sync", IF r.status = "raised" THEN 500 ELSE 200)
          /\ now' = (IF Stamped(r.rows, now + 1) THEN now + 1 ELSE now)
    /\ sess' = local'
    /\ calCache' = (calCache \/ n.cal)
    /\ UNCHANGED <<client, remote, nextUid, pc, queue, attempted, settled, todos, calendars, retry,
                   sync_logs, codec, pushes>>

\* The tables a Pull may find: no row, one row, a row for every uid, all written
\* before the Pull
PullStores ==
    {[u \in S |-> NewTask(NoUid, TRUE, "none", 1)] : S \in {{}, {1}, Uids}}

PullInit ==
    /\ client = TRUE
    /\ calCache = FALSE
    /\ local \in PullStores
    /\ sess = local
    /\ remote = Empty
    /\ nextUid = MaxUid + 1
    /\ now = MaxClock - 1
    /\ pc = "idle"
    /\ queue = <<>>
    /\ attempted = <<>>
    /\ resp = [route |-> "none", code |-> 0]
    /\ settled = FALSE
    /\ todos \in Batches \cup HierarchyBatches
    /\ calendars = Empty
    /\ pulled = NoPull
    /\ retry = NoCall
    /\ sync_logs = <<>>
    /\ codec = NoCodec
    /\ pushes = NoPushes

PullNext == \E n \in NetOutcomes : pull_todos(n)

PullSpec == PullInit /\ [][PullNext]_vars

----------------------------------------------------------------------------
\* Pull of records in every state of completion (STATUS COMPLETED or not, with or
\* without a COMPLETED time) into tables whose rows are completed or not
\* (CompletionSpec)

CompletionBatches ==
    SeqsUpTo([ decodable : {TRUE}, uid : 1..MaxBatch, parent_uid : {NoUid},
               blank : BOOLEAN, completed : BOOLEAN, completed_at : {Never, 2} ],
             MaxBatch)

\* no row, or a row for uid 1 that is synced and either open or completed at 1
CompletionStores ==
    {Empty} \cup
    {[u \in {1} |-> task] :
        task \in {NewTask(NoUid, TRUE, "none", 1), mark_completed(NewTask(NoUid, TRUE, "none", 1), 1)}}

CompletionInit ==
    /\ client = TRUE
    /\ calCache = FALSE
    /\ local \in CompletionStores
    /\ sess = local
    /\ remote = Empty
    /\ nextUid = MaxUid + 1
    /\ now = MaxClock - 1
    /\ pc = "idle"
    /\ queue = <<>>
    /\ attempted = <<>>
    /\ resp = [route |-> "none", code |-> 0]
    /\ settled = FALSE
    /\ todos \in CompletionBatches
    /\ calendars = Empty
    /\ pulled = NoPull
    /\ retry = NoCall
    /\ sync_logs = <<>>
    /\ codec = NoCodec
    /\ pushes = NoPushes

CompletionSpec == CompletionInit /\ [][PullNext]_vars

----------------------------------------------------------------------------
\* caldav_client.py: retry_on_failure, one call of a wrapped function (RetrySpec)

MaxRetries == 3
MaxDelay == 2

\* A variant of the except clause that takes every exception for transient: C19
\* rests on the tuple of line 40
TransientAny == {"ConnectionError", "TimeoutError", "PropfindError", "NotFoundError",
                 "CalDAVError"}

\* What one invocation of the wrapped function does: it returns, or it raises; the
\* exceptions of line 40
Transient == {"ConnectionError", "TimeoutError", "PropfindError"}
Outcomes == {"return"} \cup Transient \cup {"NotFoundError", "CalDAVError"}

\* A variant of the backoff that sleeps the same delay every time: C20 rests on the
\* factor 2 ** attempt
BackoffConstant(delay, attempt) == delay

\* time.sleep(delay * (2 ** attempt))
Backoff(delay, attempt) == delay * (2 ^ attempt)

\* A variant of line 42 that backs off after the last attempt as well: C21 rests on
\* the bound max_retries - 1
MoreAttemptsAlways(attempt, max_retries) == attempt < max_retries

\* line 42: another attempt follows this one
MoreAttempts(attempt, max_retries) == attempt < max_retries - 1

\* The functions called through the wrapper: "func" lets its exceptions out as they
\* are; get_all_tasks (max_retries=2) and list_calendars (max_retries=2) are the
\* decorated methods with their own try/except
DeployedFuncs == {"get_all_tasks", "list_calendars"}
Funcs == {"func"} \cup DeployedFuncs

\* What an invocation of func does when the remote call inside it (calendar.todos(),
\* principal.calendars()) has this outcome: the bodies of get_all_tasks and
\* list_calendars turn every exception into CalDAVError
Body(func, outcome) ==
    IF func \in DeployedFuncs /\ outcome # "return" THEN "CalDAVError" ELSE outcome

\* wrapper(*args): max_retries and delay of the decorator, the outcomes of the
\* successive remote calls, and with them what the successive invocations of func do
RetryInit ==
    /\ client = FALSE /\ calCache = FALSE
    /\ local = Empty /\ sess = Empty /\ remote = Empty
    /\ nextUid = 1 /\ now = 0
    /\ pc = "idle" /\ queue = <<>> /\ attempted = <<>>
    /\ resp = [route |-> "none", code |-> 0]
    /\ settled = FALSE /\ todos = <<>> /\ calendars = Empty /\ pulled = NoPull
    /\ sync_logs = <<>> /\ codec = NoCodec /\ pushes = NoPushes
    /\ \E func \in Funcs :
       \E max_retries \in (IF func \in DeployedFuncs THEN {2} ELSE 1..MaxRetries),
          delay \in (IF func \in DeployedFuncs THEN {1} ELSE 1..MaxDelay) :
          \E remote_calls \in [1..max_retries -> Outcomes] :
             retry = [ pc |-> "call", func |-> func,
                       max_retries |-> max_retries, delay |-> delay,
                       remote_calls |-> remote_calls,
                       script |-> [i \in 1..max_retries |-> Body(func, remote_calls[i])],
                       attempt |-> 0, calls |-> 0, slept |-> <<>>,
                       last_exception |-> "None", result |-> 0, exception |-> "None",
                       carried |-> "None" ]

\* line 39: func is invoked; its result is returned, or its exception handled
retry_invoke ==
    /\ retry.pc = "call"
    /\ LET calls == retry.calls + 1
           outcome == retry.script[calls]
       IN retry' =
            IF outcome = "return"
            THEN [retry EXCEPT !.calls = calls, !.pc = "returned", !.result = calls]
            ELSE IF outcome \in Transient
            THEN [retry EXCEPT !.calls = calls, !.last_exception = outcome,
                               !.pc = IF MoreAttempts(retry.attempt, retry.max_retries)
                                      THEN "sleep" ELSE "exhausted"]
            ELSE [retry EXCEPT !.calls = calls, !.pc = "raised", !.exception = outcome]
    /\ UNCHANGED <<client, calCache, local, sess, remote, nextUid, now, pc, queue,
                   attempted, resp, settled, todos, calendars, pulled, sync_logs, codec, pushes>>

\* lines 42-44: the backoff, then the next iteration of range(max_retries)
retry_sleep ==
    /\ retry.pc = "sleep"
    /\ retry' = [retry EXCEPT !.slept = Append(@, Backoff(retry.delay, retry.attempt)),
                              !.attempt = @ + 1,
                              !.pc = IF retry.attempt + 1 < retry.max_retries
                                     THEN "call" ELSE "exhausted"]
    /\ UNCHANGED <<client, calCache, local, sess, remote, nextUid, now, pc, queue,
                   attempted, resp, settled, todos, calendars, pulled, sync_logs, codec, pushes>>

\* line 50: the loop is over; the message of the CalDAVConnectionError holds
\* str(last_exception)
retry_exhausted ==
    /\ retry.pc = "exhausted"
    /\ retry' = [retry EXCEPT !.pc = "raised", !.exception = "CalDAVConnectionError",
                              !.carried = retry.last_exception]
    /\ UNCHANGED <<client, calCache, local, sess, remote, nextUid, now, pc, queue,
                   attempted, resp, settled, todos, calendars, pulled, sync_logs, codec, pushes>>

RetryNext == retry_invoke \/ retry_sleep \/ retry_exhausted

RetrySpec == RetryInit /\ [][RetryNext]_vars

----------------------------------------------------------------------------
\* The VTODO codec on one wire record: the priority of _parse_vtodo_safely, the
\* encoder of CalDAVClient.update_task and _create_vtodo (CodecSpec).  A property
\* of the VTODO is the list of its occurrences, as vobject keeps it.

MaxPriority == 15

\* Python values of the integer-typed properties: None, or a str or an int given by
\* its text
PyNone == [type |-> "NoneType", text |-> "None"]
PyStr(text) == [type |-> "str", text |-> text]

Digits == <<"0", "1", "2", "3", "4", "5", "6", "7", "8", "9">>

\* str(n): the decimal representation
RECURSIVE str(_)
str(n) ==
    IF n < 0 THEN "-" \o str(-n)
    ELSE IF n < 10 THEN Digits[n + 1]
    ELSE str(n \div 10) \o Digits[(n % 10) + 1]

PyInt(n) == [type |-> "int", text |-> str(n)]

\* int(value): the integer of an int or of a decimal text; "raises" stands for
\* ValueError / TypeError
PyInts == (0 - MaxPriority)..MaxPriority
Raises(value) == value.type = "NoneType" \/ ~\E n \in PyInts : str(n) = value.text
int(value) == CHOOSE n \in PyInts : str(n) = value.text

\* max(1, min(9, priority))
Clamp(priority) ==
    LET m == IF priority < 9 THEN priority ELSE 9
    IN IF m > 1 THEN m ELSE 1

\* lines 204-210 of _parse_vtodo_safely on safe_get_value(vtodo, 'priority'): the
\* value of the first PRIORITY line, None when there is none
DecodePriority(vtodo) ==
    LET priority == IF vtodo.priority = <<>> THEN PyNone ELSE Head(vtodo.priority)
    IN IF priority = PyNone THEN PyNone
       ELSE IF Raises(priority) THEN PyNone
       ELSE PyInt(Clamp(int(priority)))

\* vobject.readOne(todo.data): the properties come back as text
PriorityTexts == {str(n) : n \in (0 - 1)..MaxPriority} \cup {"abc", ""}
Optional(S) == {<<>>} \cup {<<x>> : x \in S}

WireRecords ==
    [ summary : {<<"a">>},
      description : {<<>>},
      status : Optional({"NEEDS-ACTION", "COMPLETED"}),
      completed : Optional({1}),
      percent_complete : SeqsUpTo({PyStr("50"), PyStr("100")}, 2),
      priority : Optional({PyStr(text) : text \in PriorityTexts}),
      sequence : Optional({PyStr("1")}),
      related_to : Optional({1}),
      due : Optional({1}),
      last_modified : {<<>>} ]

\* vtodo.<name>.value = value when the property is there, vtodo.add(name) otherwise
SetFirst(prop, value) == IF prop = <<>> THEN <<value>> ELSE <<value>> \o Tail(prop)

\* vtodo.remove(vtodo.<name>) when hasattr(vtodo, name)
RemoveFirst(prop) == IF prop = <<>> THEN <<>> ELSE Tail(prop)

\* A variant of the percent-complete loop that removes one occurrence only: C24
\* rests on the loop over all children
RemoveOnePercentComplete(vtodo) ==
    [vtodo EXCEPT !.percent_complete = RemoveFirst(@)]

\* for child in list(vtodo.getChildren()): remove every PERCENT-COMPLETE
RemovePercentComplete(vtodo) == [vtodo EXCEPT !.percent_complete = <<>>]

\* _set_priority_safely(vtodo, priority_value), priority_value not None
set_priority_safely(vtodo, priority_value) ==
    IF Raises(priority_value) THEN vtodo
    ELSE [vtodo EXCEPT !.priority =
              Append(RemoveFirst(@), PyStr(str(Clamp(int(priority_value)))))]

\* _validate_and_fix_vtodo_properties: an int in PRIORITY, PERCENT-COMPLETE or
\* SEQUENCE becomes its str
validate_and_fix_vtodo_properties(vtodo) ==
    LET fix(prop) == [i \in 1..Len(prop) |->
                         IF prop[i].type = "int" THEN PyStr(prop[i].text) ELSE prop[i]]
    IN [vtodo EXCEPT !.priority = fix(@), !.percent_complete = fix(@),
                     !.sequence = fix(@)]

\* The arguments of update_task and _create_vtodo: None is NoUid for parent_uid,
\* Never for due, PyNone for priority, "None" for completed
PriorityArgs == {PyNone, PyInt(0), PyInt(5), PyInt(MaxPriority)}
CompletedArgs == {"None", "True", "False"}
EncoderArgs ==
    [ summary : {PyNone}, description : {PyNone},
      parent_uid : {NoUid, 2}, due : {Never, 2},
      priority : PriorityArgs, completed : CompletedArgs ]

\* str.strip() on the texts of this model
strip(text) ==
    CASE text = " b " -> "b"
      [] text = " " -> ""
      [] OTHER -> text

\* A variant of the summary branch that rewrites SUMMARY on every call: C33 rests on
\* `if summary is not None`
EncodeSummaryAlways(vtodo, summary) ==
    [vtodo EXCEPT !.summary = SetFirst(@, strip(summary.text))]

\* lines 675-681: SUMMARY is set to str(summary).strip() when summary is supplied
EncodeSummary(vtodo, summary) ==
    IF summary # PyNone
    THEN [vtodo EXCEPT !.summary = SetFirst(@, strip(summary.text))]
    ELSE vtodo

\* lines 684-695: DESCRIPTION is set when the stripped text is not empty, removed
\* when it is
EncodeDescription(vtodo, description) ==
    IF description = PyNone THEN vtodo
    ELSE LET description_str == strip(description.text)
         IN IF description_str # ""
            THEN [vtodo EXCEPT !.description = SetFirst(@, description_str)]
            ELSE [vtodo EXCEPT !.description = RemoveFirst(@)]

\* CalDAVClient.update_task(todo, ...) at time t, lines 670-790, up to todo.save():
\* the VTODO that is serialized, and whether anything was
EncodeUpdate(todo, args, t) ==
    LET changed == \/ args.summary # PyNone \/ args.description # PyNone
                   \/ args.parent_uid # NoUid \/ args.due # Never
                   \/ args.priority # PyNone \/ args.completed # "None"
        v0 == EncodeDescription(EncodeSummary(todo, args.summary), args.description)
        v1 == IF args.parent_uid # NoUid
              THEN [v0 EXCEPT !.related_to = Append(RemoveFirst(@), args.parent_uid)]
              ELSE v0
        v2 == IF args.due # Never THEN [v1 EXCEPT !.due = SetFirst(@, args.due)] ELSE v1
        v3 == IF args.priority # PyNone THEN set_priority_safely(v2, args.priority) ELSE v2
        v4 == CASE args.completed = "True" ->
                     [RemovePercentComplete(
                          [v3 EXCEPT !.status = SetFirst(@, "COMPLETED"),
                                     !.completed = SetFirst(@, t)])
                        EXCEPT !.percent_complete = Append(@, PyStr("100"))]
                 [] args.completed = "False" ->
                     [RemovePercentComplete(
                          [v3 EXCEPT !.status = SetFirst(@, "NEEDS-ACTION"),
                                     !.completed = RemoveFirst(@)])
                        EXCEPT !.percent_complete = Append(@, PyStr("0"))]
                 [] OTHER -> v3
        v5 == IF changed THEN [v4 EXCEPT !.last_modified = SetFirst(@, t)] ELSE v4
    IN [ serialized |-> changed,
         vtodo |-> IF changed THEN validate_and_fix_vtodo_properties(v5) ELSE todo ]

\* _create_vtodo(summary, uid, parent_uid, description, due, priority) at time t: the
\* VTODO that is serialized (line 516)
create_vtodo(args, t) ==
    LET priority == IF args.priority = PyNone \/ Raises(args.priority) THEN PyNone
                    ELSE PyInt(Clamp(int(args.priority)))
    IN [ status |-> <<"NEEDS-ACTION">>,
         completed |-> <<>>,
         percent_complete |-> <<>>,
         priority |-> IF priority # PyNone THEN <<PyInt(int(priority))>> ELSE <<>>,
         sequence |-> <<>>,
         related_to |-> IF args.parent_uid # NoUid THEN <<args.parent_uid>> ELSE <<>>,
         due |-> IF args.due # Never THEN <<args.due>> ELSE <<>>,
         last_modified |-> <<>> ]

CodecInit ==
    /\ client = FALSE /\ calCache = FALSE
    /\ local = Empty /\ sess = Empty /\ remote = Empty
    /\ nextUid = 1 /\ now = 0
    /\ pc = "idle" /\ queue = <<>> /\ attempted = <<>>
    /\ resp = [route |-> "none", code |-> 0]
    /\ settled = FALSE /\ todos = <<>> /\ calendars = Empty /\ pulled = NoPull /\ retry = NoCall
    /\ sync_logs = <<>> /\ pushes = NoPushes
    /\ \E todo \in WireRecords :
          codec = [ pc |-> "ready", todo |-> todo, vtodo |-> todo, serialized |-> FALSE,
                    args |-> [ summary |-> PyNone, description |-> PyNone,
                               parent_uid |-> NoUid, due |-> Never, priority |-> PyNone,
                               completed |-> "None" ],
                    task_data |-> [priority |-> PyNone] ]

CodecFrame ==
    UNCHANGED <<client, calCache, local, sess, remote, nextUid, now, pc, queue, attempted,
                resp, settled, todos, calendars, pulled, retry, sync_logs, pushes>>

\* _parse_vtodo_safely(todo.data)
codec_parse ==
    /\ codec.pc = "ready"
    /\ codec' = [codec EXCEPT !.pc = "parsed",
                              !.task_data = [priority |-> DecodePriority(codec.todo)]]
    /\ CodecFrame

\* update_task(todo, ...), the remote save going through
codec_update(args) ==
    /\ codec.pc = "ready"
    /\ \E r \in {EncodeUpdate(codec.todo, args, 2)} :
          codec' = [codec EXCEPT !.pc = "updated", !.args = args,
                                 !.vtodo = r.vtodo, !.serialized = r.serialized]
    /\ CodecFrame

\* _create_vtodo(...) of create_task
codec_create(args) ==
    /\ codec.pc = "ready"
    /\ args.completed = "None"
    /\ codec' = [codec EXCEPT !.pc = "created", !.args = args,
                              !.vtodo = create_vtodo(args, 2), !.serialized = TRUE]
    /\ CodecFrame

CodecNext ==
    \/ codec_parse
    \/ \E args \in EncoderArgs : codec_update(args)
    \/ \E args \in EncoderArgs : codec_create(args)

CodecSpec == CodecInit /\ [][CodecNext]_vars

----------------------------------------------------------------------------
\* update_task on records that carry every property it can write, with every
\* combination of supplied and omitted arguments (FrameSpec)

FrameRecords ==
    [ summary : Optional({"a"}),
      description : Optional({"a"}),
      status : Optional({"NEEDS-ACTION", "COMPLETED"}),
      completed : Optional({1}),
      percent_complete : SeqsUpTo({PyStr("50")}, 2),
      priority : Optional({PyStr("5"), PyStr("12"), PyStr("abc")}),
      sequence : {<<>>},
      related_to : SeqsUpTo({1}, 2),
      due : Optional({1}),
      last_modified : Optional({1}) ]

FrameArgs ==
    [ summary : {PyNone, PyStr(" b ")},
      description : {PyNone, PyStr(" "), PyStr("c")},
      parent_uid : {NoUid, 2}, due : {Never, 2},
      priority : {PyNone, PyInt(5)}, completed : CompletedArgs ]

FrameInit ==
    /\ client = FALSE /\ calCache = FALSE
    /\ local = Empty /\ sess = Empty /\ remote = Empty
    /\ nextUid = 1 /\ now = 0
    /\ pc = "idle" /\ queue = <<>> /\ attempted = <<>>
    /\ resp = [route |-> "none", code |-> 0]
    /\ settled = FALSE /\ todos = <<>> /\ calendars = Empty /\ pulled = NoPull /\ retry = NoCall
    /\ sync_logs = <<>> /\ pushes = NoPushes
    /\ \E todo \in FrameRecords :
          codec = [ pc |-> "ready", todo |-> todo, vtodo |-> todo, serialized |-> FALSE,
                    args |-> [ summary |-> PyNone, description |-> PyNone,
                               parent_uid |-> NoUid, due |-> Never, priority |-> PyNone,
                               completed |-> "None" ],
                    task_data |-> [priority |-> PyNone] ]

FrameNext == \E args \in FrameArgs : codec_update(args)

FrameSpec == FrameInit /\ [][FrameNext]_vars

----------------------------------------------------------------------------
\* Two requests to /push_pending served by two threads of the server (app.run,
\* src/app.py:938): each has its own db.session, both work on the same table and the
\* same calendar, and nothing in push_pending takes a lock (OverlapSpec).  The
\* network answers every call.

Threads == 1..2

\* A request that has not started: its queue, whether its session has committed
\* (which expires the loaded rows), the rows it gave to db.session.delete(), and the
\* operations it applied to the remote calendar
Pusher ==
    [pc |-> "idle", queue |-> <<>>, expired |-> FALSE, deleted |-> {}, applied |-> <<>>]

\* Stores with pending rows: a pending create is not on the remote, a pending update
\* or delete is
OverlapStores ==
    UNION { [S -> {"create", "update", "delete"}] : S \in SUBSET (1..(MaxUid - 1)) \ {{}} }

OverlapInit ==
    /\ client = TRUE /\ calCache = TRUE
    /\ \E ops \in OverlapStores :
          /\ local = [u \in DOMAIN ops |-> NewTask(NoUid, FALSE, ops[u], 0)]
          /\ remote = [u \in {v \in DOMAIN ops : ops[v] # "create"} |->
                           [completed |-> FALSE, completed_at |-> Never,
                            parent_uid |-> NoUid]]
    /\ sess = local
    /\ nextUid = MaxUid /\ now = 0
    /\ pc = "idle" /\ queue = <<>> /\ attempted = <<>>
    /\ resp = [route |-> "none", code |-> 0]
    /\ settled = FALSE /\ todos = <<>> /\ calendars = Empty /\ pulled = NoPull /\ retry = NoCall
    /\ sync_logs = <<>> /\ codec = NoCodec
    /\ pushes = [w \in Threads |-> Pusher]

OverlapFrame ==
    UNCHANGED <<client, calCache, sess, now, pc, queue, attempted, resp, settled, todos, calendars,
                pulled, retry, sync_logs, codec>>

\* lines 553-559: the query, which loads the rows into the thread's session
overlap_begin(w) ==
    /\ pushes[w].pc = "idle"
    /\ IF Unsynced(local) = {}
       THEN pushes' = [pushes EXCEPT ![w].pc = "done"]
       ELSE \E q \in OrderByUpdatedAsc(local) :
               pushes' = [pushes EXCEPT
                            ![w].pc = "loop",
                            ![w].queue = [i \in 1..Len(q) |-> [uid |-> q[i], task |-> local[q[i]]]]]
    /\ UNCHANGED <<local, remote, nextUid>>
    /\ OverlapFrame

\* One iteration of the loop in thread w.  The task is what the thread loaded, or,
\* once a commit of its session has expired it, the row as it is now (gone: the
\* refresh raises).  A commit that finds the row gone fails (no row matched).
OverlapItem(w) ==
    LET head == Head(pushes[w].queue)
        uid == head.uid
        gone == uid \notin DOMAIN local
        task == IF pushes[w].expired /\ ~gone THEN local[uid] ELSE head.task
        t == now + 1
        call == [uid |-> uid, operation |-> task.operation]
        kept == [raised |-> FALSE, remote |-> remote, rows |-> local, commit |-> FALSE,
                 delete |-> FALSE, applied |-> <<>>, created |-> FALSE]
    IN IF pushes[w].expired /\ gone THEN [kept EXCEPT !.raised = TRUE]
       ELSE CASE task.operation = "create" ->
                   [kept EXCEPT !.remote = CalDAV_create_task(nextUid, task.parent_uid, NetUp).remote,
                                !.applied = <<call>>, !.created = TRUE,
                                !.raised = gone, !.commit = ~gone,
                                !.rows = IF gone THEN local
                                         ELSE PushCreateRows(local, uid, nextUid, t)]
              [] task.operation = "update" ->
                   IF ~find_task_by_uid(uid, NetUp) THEN [kept EXCEPT !.raised = TRUE]
                   ELSE [kept EXCEPT !.remote = CalDAV_update_task(TRUE, uid, task, NetUp, t).remote,
                                     !.applied = <<call>>,
                                     !.raised = gone, !.commit = ~gone,
                                     !.rows = IF gone THEN local
                                              ELSE [local EXCEPT ![uid] = mark_synced(@, t)]]
              [] task.operation = "delete" ->
                   [kept EXCEPT !.remote = CalDAV_delete_task(uid, NetUp).remote,
                                !.applied = IF CalDAV_delete_task(uid, NetUp).result
                                            THEN <<call>> ELSE <<>>,
                                !.delete = TRUE]
              [] OTHER ->
                   [kept EXCEPT !.raised = gone, !.commit = ~gone,
                                !.rows = IF gone THEN local
                                         ELSE [local EXCEPT ![uid] = mark_synced(@, t)]]

overlap_item(w) ==
    /\ pushes[w].pc = "loop" /\ pushes[w].queue # <<>>
    /\ \E r \in {OverlapItem(w)} :
          /\ remote' = r.remote
          /\ local' = r.rows
          /\ nextUid' = (IF r.created THEN nextUid + 1 ELSE nextUid)
          /\ pushes' = [pushes EXCEPT
                          ![w].pc = IF r.raised THEN "failed" ELSE "loop",
                          ![w].queue = IF r.raised THEN <<>> ELSE Tail(@),
                          ![w].expired = @ \/ r.commit,
                          ![w].deleted = IF r.raised THEN {}
                                         ELSE IF r.delete THEN @ \cup {Head(pushes[w].queue).uid}
                                         ELSE @,
                          ![w].applied = @ \o r.applied]
    /\ OverlapFrame

\* line 608: the commit after the loop, which flushes the deletes
overlap_end(w) ==
    /\ pushes[w].pc = "loop" /\ pushes[w].queue = <<>>
    /\ local' = Flush(local, pushes[w].deleted \cap DOMAIN local, now + 1)
    /\ pushes' = [pushes EXCEPT ![w].pc = "done", ![w].deleted = {}]
    /\ UNCHANGED <<remote, nextUid>>
    /\ OverlapFrame

OverlapNext ==
    \E w \in Threads : overlap_begin(w) \/ overlap_item(w) \/ overlap_end(w)

OverlapSpec == OverlapInit /\ [][OverlapNext]_vars

----------------------------------------------------------------------------
\* GET /calendars: the cache of calendars in table `calendars` (CalendarSpec)

MaxCal == 2

Urls == 1..MaxCal

\* name of a calendar object: a text, or None
NoName == "None"
Names == {"a", "b", NoName}

\* What client.list_calendars() may return: any calendars, under any names
Listings == UNION {[S -> Names] : S \in SUBSET Urls}

\* A variant of the cache update that deactivates the entries the remote no longer
\* returns: C35 rests on the loop touching only what was returned
UpdateCacheListedOnly(cache, listing, t) ==
    [u \in DOMAIN cache \cup DOMAIN listing |->
        IF u \in DOMAIN listing
        THEN [name |-> listing[u], is_active |-> TRUE, last_sync |-> t]
        ELSE [cache[u] EXCEPT !.is_active = FALSE]]

\* lines 526-537: one entry per calendar returned, inserted or refreshed
UpdateCache(cache, listing, t) ==
    [u \in DOMAIN cache \cup DOMAIN listing |->
        IF u \in DOMAIN listing
        THEN [name |-> listing[u], is_active |-> TRUE, last_sync |-> t]
        ELSE cache[u]]

\* GET /calendars.  Without a client the cached entries are returned.  A failed
\* listing, or a calendar without a name (column `name` is NOT NULL: the flush
\* raises), ends in the except block with nothing committed.
list_calendars(listing, n) ==
    /\ pc = "idle"
    /\ IF ~client
       THEN /\ Respond("calendars", 200)
            /\ UNCHANGED <<calendars, now>>
       ELSE IF ~n.cal \/ \E u \in DOMAIN listing : listing[u] = NoName
       THEN /\ Respond("calendars", 500)
            /\ UNCHANGED <<calendars, now>>
       ELSE /\ now < MaxClock
            /\ calendars' = UpdateCache(calendars, listing, now + 1)
            /\ now' = now + 1
            /\ Respond("calendars", 200)
    /\ UNCHANGED <<client, calCache, local, sess, remote, nextUid, pc, queue, attempted,
                   settled, todos, pulled, retry, sync_logs, codec, pushes>>

CalendarNext == \E listing \in Listings, n \in NetOutcomes : list_calendars(listing, n)

CalendarSpec == Init /\ [][CalendarNext]_vars

----------------------------------------------------------------------------
\* Steps and states the claims speak about

\* a request other than a push that ended with the response of `route`
RequestStep(route) == pc = "idle" /\ pc' = "idle" /\ resp'.route = route

\* a loop iteration of push_pending that raised: the 500 of /push_pending
PushItemFailed == pc = "push" /\ pc' = "idle" /\ resp'.code = 500

\* a loop iteration of push_pending that went through for the head of the queue
PushItemDone == pc = "push" /\ queue # <<>> /\ pc' = "push" /\ queue' = Tail(queue)

----------------------------------------------------------------------------
\* C1: a task with a pending local change (is_synced false) becomes synced only in
\* a push step whose remote call for it succeeded; Pull never marks such a task
\* synced and never overwrites its locally edited values.
C1_PendingOnlySyncedByPush ==
    [][ /\ \A u \in DOMAIN local :
              (~local[u].is_synced /\ u \in DOMAIN local' /\ local'[u].is_synced)
                  => (PushItemDone /\ Head(queue).uid = u)
        /\ RequestStep("sync") =>
              \A u \in Unsynced(local) : u \in DOMAIN local' /\ local'[u] = local[u]
      ]_vars

\* C2: once the remote stays reachable, edits have stopped and Push is invoked
\* repeatedly, eventually no record is unsynced.
C2_EventualReconciliation == settled ~> (Unsynced(local) = {})

\* C3: a local row is removed only when the remote confirmed the deletion of that
\* task: after the removing step the task is not on the remote.  (The row of a
\* pushed create leaves its old uid for the new one; that is no removal.)
C3_RemovedOnlyWhenRemoteDeleted ==
    [][ \A u \in DOMAIN local :
            u \notin DOMAIN local'
                => \/ u \notin DOMAIN remote'
                   \/ PushItemDone /\ Head(queue).uid = u /\ local[u].operation = "create"
      ]_vars

\* C4: Push issues the remote operations of the pending rows in ascending order of
\* `updated`: the operations issued so far are in that order, and no row still
\* waiting has an earlier `updated` than a row already attempted.
C4_PushOrder ==
    pc = "push" =>
        /\ \A i, j \in 1..Len(attempted) :
              i < j => attempted[i].updated <= attempted[j].updated
        /\ \A i \in 1..Len(attempted), j \in 1..Len(queue) :
              attempted[i].updated <= queue[j].updated

C4_Witness ==
    /\ pc = "push" /\ Len(attempted) = 2
    /\ attempted[1].updated < attempted[2].updated
    /\ attempted[1].uid > attempted[2].uid

\* C5: a failing item never aborts the rest of the batch: while items are pending,
\* every step of Push moves on to the next item; Push ends only after the last.
C5_PushVisitsEveryItem ==
    [][ (pc = "push" /\ queue # <<>>) => (pc' = "push" /\ queue' = Tail(queue)) ]_vars

\* a Push request that ends here, with its 200 or with the 500 of an exception
PushEnds == pc = "push" /\ pc' = "idle"

\* C6: when the push of an item fails, the row is still there after the Push,
\* unsynced, with the pending operation it had.  An item fails when its remote call
\* raises or the remote object of an update is absent (the iteration raises), and
\* when its remote delete was not carried out: the task is still on the remote.
C6_FailedItemStaysPending ==
    [][ /\ PushItemFailed =>
              LET u == Head(queue).uid
              IN /\ u \in DOMAIN local'
                 /\ ~local'[u].is_synced
                 /\ local'[u].operation = sess[u].operation
        /\ PushEnds =>
              \A i \in 1..Len(attempted) :
                  LET u == attempted[i].uid
                  IN (attempted[i].operation = "delete" /\ u \in DOMAIN remote')
                        => /\ u \in DOMAIN local'
                           /\ ~local'[u].is_synced
                           /\ local'[u].operation = "delete"
      ]_vars

\* C7: each failed push attempt of an item increments its sync_attempts by one.
C7_FailedItemCountsAttempt ==
    [][ PushItemFailed =>
            /\ Head(queue).uid \in DOMAIN local'
            /\ local'[Head(queue).uid].sync_attempts = sess[Head(queue).uid].sync_attempts + 1
      ]_vars

\* C8: after a successful push of a pending create the row carries the uid the
\* remote create assigned, is synced with no operation and zero attempts, and no
\* row is left under the old uid.
C8_PushedCreateTakesRemoteUid ==
    [][ (PushItemDone /\ sess[Head(queue).uid].operation = "create") =>
            /\ Head(queue).uid \notin DOMAIN local'
            /\ \E v \in DOMAIN remote' \ DOMAIN remote :
                  /\ v \in DOMAIN local' /\ v \notin DOMAIN local
                  /\ local'[v].is_synced
                  /\ local'[v].operation = "none"
                  /\ local'[v].sync_attempts = 0
                  /\ local'[v].completed = sess[Head(queue).uid].completed
      ]_vars

C8_Witness ==
    /\ pc = "push"
    /\ \E i \in 1..Len(attempted) :
          /\ attempted[i].operation = "create"
          /\ attempted[i].uid \notin DOMAIN local

\* C9: a task that is unsynced with pending operation create keeps that operation
\* under local edits; it is never turned into update before the create is pushed.
C9_PendingCreateStaysCreate ==
    [][ \A u \in DOMAIN local :
            (~local[u].is_synced /\ local[u].operation = "create" /\ u \in DOMAIN local')
                => local'[u].operation # "update"
      ]_vars

\* C10: after a successful Pull every record of the batch has a row that is
\* synced, with no operation, zero attempts and last_sync at the time of the Pull.
C10_PulledRowsSynced ==
    (pc = "idle" /\ resp = [route |-> "sync", code |-> 200]) =>
        \A u \in DOMAIN remote :
            /\ u \in DOMAIN local
            /\ local[u].is_synced
            /\ local[u].operation = "none"
            /\ local[u].sync_attempts = 0
            /\ local[u].last_sync = now

C10_Witness ==
    /\ pc = "idle" /\ resp = [route |-> "sync", code |-> 200]
    /\ Cardinality(DOMAIN remote) >= 2
    /\ \A u \in DOMAIN remote : u \in DOMAIN local /\ local[u].last_sync = now

----------------------------------------------------------------------------
\* Claims about Pull (PullSpec)

\* a POST /sync that sync_tasks_to_db returned from
PullReturned == pc = "idle" /\ pc' = "idle" /\ pulled'.status = "returned"

\* a POST /sync that ended in failure
PullRaised == pc = "idle" /\ pc' = "idle" /\ pulled'.status = "raised"

\* the uids of the decoded batch
BatchUids == {todos[i].uid : i \in {j \in 1..Len(todos) : todos[j].decodable}}

\* C11: `created` is the number of batch uids without a row before the Pull, each
\* of them inserted; `updated` the number of batch uids with a row, each of them
\* updated from the incoming record; created + updated is the number of distinct
\* uids of the decoded batch.
C11_PullCountsUpserts ==
    [][ PullReturned =>
            /\ pulled'.stats.created = Cardinality(BatchUids \ DOMAIN local)
            /\ pulled'.stats.updated = Cardinality(BatchUids \cap DOMAIN local)
            /\ pulled'.stats.created + pulled'.stats.updated = Cardinality(BatchUids)
            /\ \A u \in BatchUids :
                  /\ u \in DOMAIN local'
                  /\ local'[u].completed = TaskMap(get_all_tasks(todos))[u].completed
      ]_vars

\* the todos of the listing that decode to a usable record: the last one listed
\* for its uid, with a summary
Usable(i) ==
    /\ todos[i].decodable /\ ~todos[i].blank
    /\ \A j \in 1..Len(todos) : (todos[j].decodable /\ todos[j].uid = todos[i].uid) => j <= i

\* C12: a remote record that fails to decode is skipped and does not abort the
\* Pull: the Pull does not fail on its account, and every other record of the fetch
\* is decoded, counted as fetched and upserted.
C12_DecodeFailureSkipped ==
    [][ (pc = "idle" /\ pulled' # pulled /\ Garbage \in {todos[i] : i \in 1..Len(todos)}) =>
            /\ (pulled'.status = "raised" /\ pulled'.cause = "commit") =>
                    \E i \in 1..Len(todos) :
                        todos[i].decodable /\ todos[i].blank /\ todos[i].uid \notin DOMAIN local
            /\ pulled'.status = "returned" =>
                  /\ pulled'.stats.total_fetched =
                        Cardinality({i \in 1..Len(todos) : todos[i].decodable})
                  /\ \A i \in 1..Len(todos) :
                        Usable(i) =>
                            /\ todos[i].uid \in DOMAIN local'
                            /\ local'[todos[i].uid].completed = todos[i].completed
                            /\ local'[todos[i].uid].last_sync = now'
      ]_vars

C12_Witness ==
    /\ pulled.status = "returned"
    /\ Len(todos) = 2 /\ todos[1] = Garbage
    /\ todos[2].decodable /\ todos[2].uid \in DOMAIN local
    /\ local[todos[2].uid].last_sync = now

\* C13: the `errors` statistic a Pull returns is the number of remote records whose
\* decoding failed in that Pull.
C13_ErrorsCountDecodeFailures ==
    pulled.status = "returned" =>
        pulled.stats.errors = Cardinality({i \in 1..Len(todos) : ~todos[i].decodable})

\* C14: a Pull that ends in failure (the fetch failed, or the commit did) leaves
\* every local row with the values it had before the Pull.
C14_FailedPullChangesNothing ==
    [][ PullRaised => (local' = local /\ sess' = local) ]_vars

C14_Witness ==
    /\ pulled.status = "raised" /\ pulled.cause = "commit"
    /\ \E i \in 1..Len(todos) : Usable(i) /\ i < Len(todos)

\* C15: after a successful Pull every record upserted from the batch has a local
\* parent_uid that is null or the uid of another record of the batch; a record whose
\* parent reference names a uid outside the batch is stored with parent_uid null and
\* is still counted in created/updated.
C15_PulledParentsInBatch ==
    pulled.status = "returned" =>
        /\ pulled.stats.created + pulled.stats.updated = Cardinality(BatchUids)
        /\ \A i \in 1..Len(todos) :
              Usable(i) =>
                 LET u == todos[i].uid
                 IN /\ u \in DOMAIN local
                    /\ \/ local[u].parent_uid = NoUid
                       \/ local[u].parent_uid \in BatchUids \ {u}
                    /\ todos[i].parent_uid \notin BatchUids => local[u].parent_uid = NoUid

C15_Witness ==
    /\ pulled.status = "returned" /\ pulled.stats.created = 2
    /\ Len(todos) = 2
    /\ \E i \in 1..2 :
          /\ Usable(i)
          /\ todos[i].parent_uid # NoUid /\ todos[i].parent_uid \notin BatchUids
          /\ local[todos[i].uid].parent_uid = NoUid

\* the k-th parent of uid in a batch, NoUid where the chain ends or leaves the batch
RECURSIVE KthParent(_, _, _)
KthParent(task_map, uid, k) ==
    IF k = 0 THEN uid
    ELSE IF uid \notin DOMAIN task_map THEN NoUid
    ELSE KthParent(task_map, task_map[uid].parent_uid, k - 1)

\* no task of the batch is its own ancestor
Acyclic(task_map) ==
    \A u \in DOMAIN task_map :
        \A k \in 1..Cardinality(DOMAIN task_map) : KthParent(task_map, u, k) # u

\* every parent reference names a task of the batch
Resolved(task_map) ==
    \A u \in DOMAIN task_map :
        task_map[u].parent_uid # NoUid => task_map[u].parent_uid \in DOMAIN task_map

\* C16: whatever the batch (dangling parents, self-parents, cycles of any length,
\* chains leading into cycles), after _validate_task_hierarchy its parent relation
\* has no cycle and every non-null parent_uid is a key of the batch.
C16_ValidatedBatchIsForest ==
    pulled.status = "returned" =>
        /\ DOMAIN pulled.task_map = BatchUids
        /\ Acyclic(pulled.task_map)
        /\ Resolved(pulled.task_map)

\* a chain leading into a cycle: 1 -> 2 -> 3 -> 2, repaired
C16_Witness ==
    /\ pulled.status = "returned"
    /\ LET raw == TaskMap(get_all_tasks(todos))
       IN /\ DOMAIN raw = {1, 2, 3}
          /\ raw[1].parent_uid = 2 /\ raw[2].parent_uid = 3 /\ raw[3].parent_uid = 2
    /\ pulled.task_map[1].parent_uid = 2

\* C17: validation is idempotent: on a batch that is already valid, in particular on
\* its own output, it changes no parent_uid and performs zero repairs.
C17_ValidationIdempotent ==
    pulled.status = "returned" =>
        LET raw == TaskMap(get_all_tasks(todos))
        IN /\ (Acyclic(raw) /\ Resolved(raw)) =>
                 /\ pulled.fixed_count = 0
                 /\ \A u \in DOMAIN raw : pulled.task_map[u].parent_uid = raw[u].parent_uid
           /\ validate_task_hierarchy(pulled.task_map, pulled.order) = pulled.task_map
           /\ fixed_count(pulled.task_map, pulled.order) = 0

\* a valid batch with a chain of two links, left as it was
C17_Witness ==
    /\ pulled.status = "returned" /\ pulled.fixed_count = 0
    /\ \E u, v, w \in DOMAIN pulled.task_map :
          /\ pulled.task_map[u].parent_uid = v
          /\ pulled.task_map[v].parent_uid = w

\* C18: validation reports its repair count: the hierarchy_fixes statistic of the
\* Pull is the number of parent references the two passes set to null.
C18_HierarchyFixesReported ==
    pulled.status = "returned" => pulled.stats.hierarchy_fixes = pulled.fixed_count

----------------------------------------------------------------------------
\* Claims about the retry wrapper (RetrySpec)

\* an invocation of the wrapped function by the wrapper
Invocation == retry.pc = "call" /\ retry'.calls = retry.calls + 1

\* C19: the wrapper invokes the call again only after a transient failure
\* (ConnectionError, TimeoutError, PropfindError); any other exception reaches the
\* caller unchanged after that one invocation, with no sleep and no further attempt.
C19_RetryOnlyTransient ==
    [][ /\ (Invocation /\ retry.calls > 0) =>
              retry.script[retry.calls] \in {"ConnectionError", "TimeoutError", "PropfindError"}
        /\ (Invocation /\ retry.script[retry.calls + 1] \in {"NotFoundError", "CalDAVError"}) =>
              /\ retry'.pc = "raised"
              /\ retry'.exception = retry.script[retry.calls + 1]
              /\ retry'.slept = retry.slept
        /\ retry.pc \in {"raised", "returned"} => retry' = retry
      ]_vars

\* a transient failure, one retry, then an exception that is not transient
C19_Witness ==
    /\ retry.pc = "raised" /\ retry.exception = "CalDAVError"
    /\ retry.calls = 2 /\ Len(retry.slept) = 1

RECURSIVE SumSeq(_)
SumSeq(q) == IF q = <<>> THEN 0 ELSE Head(q) + SumSeq(Tail(q))

\* C20: the delay slept after the k-th failed attempt (k from 0) is base * 2^k and the
\* call is invoked once per attempt; a call that fails transiently twice and then
\* succeeds with max_retries = 3 is invoked 3 times, returns the third result, and
\* the delays add up to base + 2 * base.
C20_BackoffSchedule ==
    retry.pc # "none" =>
        /\ \A k \in 0..(Len(retry.slept) - 1) : retry.slept[k + 1] = retry.delay * (2 ^ k)
        /\ Len(retry.slept) = retry.attempt
        /\ retry.calls = retry.attempt + (IF retry.pc = "call" THEN 0 ELSE 1)
        /\ ( /\ retry.max_retries = 3
             /\ retry.script[1] \in {"ConnectionError", "TimeoutError", "PropfindError"}
             /\ retry.script[2] \in {"ConnectionError", "TimeoutError", "PropfindError"}
             /\ retry.script[3] = "return"
             /\ retry.pc \in {"returned", "raised"} )
            => /\ retry.pc = "returned"
               /\ retry.calls = 3
               /\ retry.result = 3
               /\ SumSeq(retry.slept) = retry.delay + 2 * retry.delay

C20_Witness ==
    /\ retry.pc = "returned" /\ retry.max_retries = 3 /\ retry.delay = 2
    /\ retry.calls = 3 /\ retry.result = 3
    /\ retry.slept = <<2, 4>>

\* C21: when every one of the max_retries attempts fails with a transient error the
\* wrapper has invoked the call exactly max_retries times, has slept after each
\* failed attempt but the last, and raises CalDAVConnectionError carrying the last
\* underlying error; it returns no value and invokes nothing afterwards.
C21_ExhaustedRaisesConnectionError ==
    LET allTransient == \A i \in 1..retry.max_retries :
                            retry.script[i] \in {"ConnectionError", "TimeoutError",
                                                 "PropfindError"}
    IN (retry.pc # "none" /\ allTransient) =>
          /\ retry.pc # "returned"
          /\ retry.calls <= retry.max_retries
          /\ Len(retry.slept) <= retry.max_retries - 1
          /\ retry.pc = "raised" =>
                /\ retry.exception = "CalDAVConnectionError"
                /\ retry.carried = retry.script[retry.max_retries]
                /\ retry.calls = retry.max_retries
                /\ Len(retry.slept) = retry.max_retries - 1

\* three transient failures of three attempts, the last one a timeout
C21_Witness ==
    /\ retry.pc = "raised" /\ retry.exception = "CalDAVConnectionError"
    /\ retry.max_retries = 3 /\ retry.calls = 3 /\ Len(retry.slept) = 2
    /\ retry.script[1] = "ConnectionError" /\ retry.carried = "TimeoutError"

\* C22: get_all_tasks and list_calendars are retried as deployed: when the remote
\* call inside them fails with a connection failure or a timeout, the operation is
\* attempted again (up to its 2 attempts) before the failure reaches the caller.
C22_DeployedCallsRetried ==
    ( /\ retry.pc \in {"raised", "returned"}
      /\ retry.func \in {"get_all_tasks", "list_calendars"}
      /\ retry.remote_calls[1] \in {"ConnectionError", "TimeoutError"} )
    => retry.calls = 2

\* C23: decoding the priority: a wire priority greater than 9 decodes to 9, one in
\* 1..9 to itself, one below 1 (0, -1) to absent, and a value that is no integer to
\* absent.
C23_PriorityDecoded ==
    (codec.pc = "parsed" /\ codec.todo.priority # <<>>) =>
        LET text == Head(codec.todo.priority).text
            priority == codec.task_data.priority
        IN /\ \A n \in (0 - 1)..MaxPriority :
                 text = str(n) =>
                     priority = (IF n > 9 THEN PyInt(9)
                                 ELSE IF n >= 1 THEN PyInt(n)
                                 ELSE PyNone)
           /\ text \in {"abc", ""} => priority = PyNone

C25_IntegerPropertiesAreText ==
    (codec.pc \in {"updated", "created"} /\ codec.serialized) =>
        \A prop \in {codec.vtodo.priority, codec.vtodo.percent_complete,
                      codec.vtodo.sequence} :
            \A i \in 1..Len(prop) : prop[i].type = "str"

\* C26: clearing a field propagates: when the parent_uid of a local record has been
\* cleared and the update is pushed successfully, the remote record has no parent
\* afterwards: the remote parent equals the local one after every pushed update.
C26_ClearedFieldPushed ==
    [][ (PushItemDone /\ sess[Head(queue).uid].operation = "update") =>
            remote'[Head(queue).uid].parent_uid = sess[Head(queue).uid].parent_uid
      ]_vars

\* C27: every push item produces exactly one audit entry: each iteration of the push
\* loop, for a create, an update or a delete, successful or failed, appends one
\* SyncLog row with the item's uid (the pushed create's old or new one), the
\* operation that was attempted and status success or error.
C27_PushItemLogged ==
    [][ (pc = "push" /\ queue # <<>>) =>
            \E status \in {"success", "error"},
               task_uid \in {Head(queue).uid} \cup (DOMAIN local' \ DOMAIN local) :
                  sync_logs' = Append(sync_logs,
                                      [ task_uid |-> task_uid,
                                        operation |-> sess[Head(queue).uid].operation,
                                        status |-> status ])
      ]_vars

\* C28: in every reachable state of the local store the parent relation is acyclic:
\* following parent_uid from a record never returns to it.
C28_LocalParentsAcyclic == Acyclic(local)

\* C29: in every reachable state of the local store every non-null parent_uid is the
\* uid of an existing local record.
C29_LocalParentsExist == Resolved(local)

\* C30: push application is serialized: when two Push invocations overlap, each
\* pending item is applied to the remote store by at most one of them; a pending
\* create never causes two remote creates and no pending update is applied twice.
C30_PushSerialized ==
    pushes # <<>> =>
        \A i \in 1..Len(pushes[1].applied), j \in 1..Len(pushes[2].applied) :
            pushes[1].applied[i] # pushes[2].applied[j]

----------------------------------------------------------------------------
\* C36: in every reachable state of the local store, for every task, is_synced is
\* true if and only if its pending operation is none, and an unsynced task carries
\* one of create, update, delete
C36_SyncStateConsistent ==
    \A u \in DOMAIN local :
        /\ local[u].is_synced <=> local[u].operation = "none"
        /\ ~local[u].is_synced => local[u].operation \in {"create", "update", "delete"}

\* a pushed (synced) row next to a row queued for delete
C36_Witness ==
    \E u, v \in DOMAIN local :
        /\ local[u].is_synced /\ local[u].last_sync # Never
        /\ ~local[v].is_synced /\ local[v].operation = "delete"

\* C37: in the PATCH route with a client, when the remote update went through (the
\* remote record was rewritten), the task ends the request synced with no pending
\* operation; it is queued as unsynced/update only when the remote update failed
C37_PatchSyncedOnSuccess ==
    [][ \A u \in DOMAIN local :
            ( /\ RequestStep("patch") /\ client /\ resp'.code = 200
              /\ u \in DOMAIN local' /\ local'[u] # local[u]
              /\ u \in DOMAIN remote /\ remote'[u] # remote[u] )
                => local'[u].is_synced /\ local'[u].operation = "none"
      ]_vars

\* C38: the create route keeps remote and local in step: a request that created a
\* task on the remote store leaves a synced local row with that uid, and a request
\* that ends in an error response has created nothing on the remote store
C38_CreateInStep ==
    [][ RequestStep("create") =>
            /\ \A u \in DOMAIN remote' \ DOMAIN remote :
                   u \in DOMAIN local' /\ local'[u].is_synced
            /\ resp'.code >= 400 => DOMAIN remote' = DOMAIN remote
      ]_vars

\* C32: a lookup of a remote task by uid reports absent (None) only when the remote
\* store answered not-found, that is when no record with that uid is on the remote;
\* a lookup the network failed is not reported as absent
C32_AbsentOnlyWhenNotFound ==
    \A n \in NetOutcomes, uid \in Uids :
        ~find_task_by_uid(uid, n) => uid \notin DOMAIN remote

\* C34: every parent-chain walk of the cycle pass terminates, for every batch: it
\* visits each uid at most once and stops at a null parent, at a uid outside the
\* batch, at the start uid, or at an already visited uid.
C34_CycleWalksTerminate ==
    pulled.status = "returned" =>
        LET raw == OrphanPass(TaskMap(get_all_tasks(todos)))
            walks == CycleWalks(raw, pulled.order)
        IN /\ \A i \in 1..Len(walks) :
                 LET w == walks[i].walk
                 IN /\ w.stop \in {"null", "outside", "start", "visited"}
                    /\ \A j, k \in 1..Len(w.path) : j # k => w.path[j] # w.path[k]
                    /\ Len(w.path) <= Cardinality(DOMAIN raw)
              \* the walks are those of has_cycle: one repair for every walk that
              \* came back to its start
           /\ Cardinality({i \in 1..Len(walks) : walks[i].walk.stop = "start"})
                 = CycleFixes(raw, pulled.order)

\* a walk that runs into a cycle which does not contain its start: 1 -> 2 -> 3 -> 2
\* with 1 first in the batch
C34_Witness ==
    /\ pulled.status = "returned"
    /\ LET walks == CycleWalks(OrphanPass(TaskMap(get_all_tasks(todos))), pulled.order)
       IN \E i \in 1..Len(walks) :
             /\ walks[i].walk.stop = "visited"
             /\ Len(walks[i].walk.path) = 2

\* the members of the cycle that uid is on (empty when it is on none)
CycleOf(task_map, uid) ==
    IF \E k \in 1..Cardinality(DOMAIN task_map) : KthParent(task_map, uid, k) = uid
    THEN {KthParent(task_map, uid, k) : k \in 1..Cardinality(DOMAIN task_map)}
    ELSE {}

\* the position of uid in the batch order
Position(order, uid) == CHOOSE i \in 1..Len(order) : order[i] = uid

\* C39: the cycle pass performs a minimal repair: for each cycle of the batch's
\* parent relation exactly one record has its parent_uid set to null, the member of
\* the cycle that comes first in batch order, and no record that is not on a cycle
\* (also not one whose chain leads into a cycle) has its parent_uid changed.
C39_MinimalCycleRepair ==
    pulled.status = "returned" =>
        LET raw == OrphanPass(TaskMap(get_all_tasks(todos)))
            out == pulled.task_map
        IN \A u \in DOMAIN raw :
              LET cycle == CycleOf(raw, u)
                  first == /\ cycle # {}
                           /\ \A v \in cycle : Position(pulled.order, u) <= Position(pulled.order, v)
              IN /\ first => out[u].parent_uid = NoUid
                 /\ ~first => out[u].parent_uid = raw[u].parent_uid

\* 1 -> 2 -> 3 -> 1: only the first record of the batch lost its parent
C39_Witness ==
    /\ pulled.status = "returned"
    /\ LET raw == TaskMap(get_all_tasks(todos))
       IN /\ DOMAIN raw = {1, 2, 3}
          /\ raw[1].parent_uid = 2 /\ raw[2].parent_uid = 3 /\ raw[3].parent_uid = 1
    /\ pulled.order[1] = 3
    /\ pulled.task_map[3].parent_uid = NoUid
    /\ pulled.task_map[1].parent_uid = 2 /\ pulled.task_map[2].parent_uid = 3

\* C33: frame of an update encode: for each of summary, description, due, priority,
\* parent reference and completion, when update_task is called with that argument
\* not supplied, the wire property of the record is the same before and after the
\* call; when no argument at all is supplied nothing is serialized or saved.
C33_UpdateFrame ==
    codec.pc = "updated" =>
        /\ codec.args.summary = PyNone => codec.vtodo.summary = codec.todo.summary
        /\ codec.args.description = PyNone =>
              codec.vtodo.description = codec.todo.description
        /\ codec.args.due = Never => codec.vtodo.due = codec.todo.due
        /\ codec.args.priority = PyNone => codec.vtodo.priority = codec.todo.priority
        /\ codec.args.parent_uid = NoUid => codec.vtodo.related_to = codec.todo.related_to
        /\ codec.args.completed = "None" =>
              /\ codec.vtodo.status = codec.todo.status
              /\ codec.vtodo.completed = codec.todo.completed
              /\ codec.vtodo.percent_complete = codec.todo.percent_complete
        /\ ( /\ codec.args.summary = PyNone /\ codec.args.description = PyNone
             /\ codec.args.due = Never /\ codec.args.priority = PyNone
             /\ codec.args.parent_uid = NoUid /\ codec.args.completed = "None" )
              => ~codec.serialized /\ codec.vtodo = codec.todo

\* an update of the due date alone, on a record that has every other property, some
\* of them out of range or repeated
C33_Witness ==
    /\ codec.pc = "updated" /\ codec.serialized
    /\ codec.args = [ summary |-> PyNone, description |-> PyNone, parent_uid |-> NoUid,
                      due |-> 2, priority |-> PyNone, completed |-> "None" ]
    /\ codec.todo.priority = <<PyStr("12")>>
    /\ Len(codec.todo.related_to) = 2 /\ Len(codec.todo.percent_complete) = 2
    /\ codec.todo.summary # <<>> /\ codec.todo.description # <<>>
    /\ codec.todo.status = <<"COMPLETED">> /\ codec.todo.completed # <<>>
    /\ codec.vtodo.due = <<2>> /\ codec.vtodo.last_modified = <<2>>

\* C40: in every reachable state of the local store, every task with
\* completed = false has completed_at null
C40_IncompleteHasNoCompletionTime ==
    \A u \in DOMAIN local : ~local[u].completed => local[u].completed_at = Never

\* a task whose completion reached the remote and that was marked incomplete again
C40_Witness ==
    \E u \in DOMAIN local :
        /\ u \in DOMAIN remote /\ remote[u].completed /\ remote[u].completed_at # Never
        /\ ~local[u].completed /\ local[u].completed_at = Never

\* C31: after Pull has processed an incoming record, the local completed_at of that
\* record is non-null if and only if the incoming record is completed and the remote
\* supplied a completion timestamp; it is null whenever the incoming record is not
\* completed, whatever the prior local value was.
C31_PulledCompletionTime ==
    [][ PullReturned =>
            \A u \in DOMAIN pulled'.task_map :
                LET task_data == pulled'.task_map[u]
                IN ~task_data.blank =>
                      /\ local'[u].completed_at # Never
                            <=> (task_data.completed /\ task_data.completed_at # Never)
                      /\ ~task_data.completed => local'[u].completed_at = Never
      ]_vars

\* C35: the cached set of calendars only grows: a successful list operation inserts
\* or refreshes one entry per calendar returned by the remote and never deletes or
\* deactivates an entry, so a url once cached stays cached and active after any
\* list operation, also one that no longer returns it.
C35_CalendarCacheGrows ==
    [][ /\ \A u \in DOMAIN calendars :
              /\ u \in DOMAIN calendars'
              /\ calendars[u].is_active => calendars'[u].is_active
        /\ calendars' # calendars =>
              /\ resp' = [route |-> "calendars", code |-> 200]
              /\ \A u \in DOMAIN calendars' :
                    \/ calendars'[u].is_active /\ calendars'[u].last_sync = now'
                    \/ u \in DOMAIN calendars /\ calendars'[u] = calendars[u]
      ]_vars

\* a calendar that the latest successful list no longer returned, still cached and
\* active next to one that was just refreshed
C35_Witness ==
    /\ resp = [route |-> "calendars", code |-> 200]
    /\ DOMAIN calendars = Urls
    /\ calendars[1].is_active /\ calendars[1].last_sync < now
    /\ calendars[2].is_active /\ calendars[2].last_sync = now

====
